---- MODULE Spec2Model ----
(***************************************************************************)
(* A model of the eSignBase Node SDK client (src/index.js): the            *)
(* constructor's validation, the token exchange (connect), the             *)
(* authenticated request pipeline (#request, #handleResponse) and the      *)
(* eight resource operations built on it.                                  *)
(*                                                                         *)
(* JavaScript runs one continuation at a time: every action below is one   *)
(* continuation, from the point where an awaited promise settles to the    *)
(* next await (or to the end of the operation).  Operations in flight      *)
(* interleave only at their awaits: the network call and the body read.    *)
(*                                                                         *)
(* Strings that the code cuts or joins (URLs, identifiers, the scope       *)
(* list) are sequences of pieces; "/" is a piece of its own.               *)
(***************************************************************************)
EXTENDS Integers, Sequences, FiniteSets, TLC

VARIABLES
    ctorIn,       \* the argument of the last constructor call
    ctorErr,      \* what that call threw (NoError when it returned)
    client,       \* the client's immutable private fields, or NoClient
    accessToken,  \* #accessToken
    tasks         \* the operations in flight, one per slot

vars == <<ctorIn, ctorErr, client, accessToken, tasks>>

(***************************************************************************)
(* Values                                                                  *)
(***************************************************************************)

\* JavaScript's undefined and null, as values a string field may hold.
Undefined == "<undefined>"
Null == "<null>"

\* !x for the string-valued fields the code tests: undefined, null and the
\* empty string are falsy.
Falsy(x) == x \in {Undefined, Null, ""}

\* src/index.js:7-10
GrantType == [CLIENT_CREDENTIALS |-> "client_credentials",
              AUTHORIZATION_CODE |-> "authorization_code"]

\* Object.values(GrantType)
GrantTypeValues == {GrantType.CLIENT_CREDENTIALS, GrantType.AUTHORIZATION_CODE}

\* src/index.js:12-18, Object.values(Scope)
ScopeValues == {"all", "read", "create_document", "delete", "sandbox"}

\* An error as the caller sees it.  name is the class of the thrown value;
\* statusCode is {} when the error carries none (null), {s} otherwise.
NoError == [name |-> "none", message |-> "", statusCode |-> {}]

\* ESignBaseSDKError losing the status it is given.
ESignBaseSDKErrorWithoutStatus(message, statusCode) ==
    [name |-> "ESignBaseSDKError", message |-> message, statusCode |-> {}]

\* new ESignBaseSDKError(message, statusCode = null)
ESignBaseSDKError(message, statusCode) ==
    [name |-> "ESignBaseSDKError", message |-> message, statusCode |-> statusCode]

\* What the platform throws; none of these is an ESignBaseSDKError.
TransportError == [name |-> "TypeError", message |-> "fetch failed", statusCode |-> {}]
AbortError == [name |-> "AbortError", message |-> "This operation was aborted", statusCode |-> {}]
\* response.json() of a body that is not JSON, here the text not json.
ParseError ==
    [name |-> "SyntaxError",
     message |-> "Unexpected token 'o', \"not json\" is not valid JSON",
     statusCode |-> {}]
\* response.json() of an empty or truncated body, or of no body at all.
EndOfInputError ==
    [name |-> "SyntaxError", message |-> "Unexpected end of JSON input", statusCode |-> {}]
TerminatedError == [name |-> "TypeError", message |-> "terminated", statusCode |-> {}]

\* What response.json() rejects with: the body does not parse, it ends
\* before a JSON value does, or the connection is closed before the body
\* has arrived.
JsonErrors == {ParseError, EndOfInputError, TerminatedError}

\* What data.access_token throws when data is null.  src/index.js:210
NullPropertyError ==
    [name |-> "TypeError",
     message |-> "Cannot read properties of null (reading 'access_token')",
     statusCode |-> {}]

\* What Readable.fromWeb throws when response.body is null.  src/index.js:288
StreamArgumentError ==
    [name |-> "TypeError",
     message |-> "The \"readableStream\" argument must be an instance of ReadableStream. Received null",
     statusCode |-> {}]

(***************************************************************************)
(* The constructor                                                         *)
(***************************************************************************)

DefaultBaseURL == <<"https://app.esignbase.com", "/">>

\* baseURL.endsWith('/')
EndsWithSlash(s) == Len(s) > 0 /\ s[Len(s)] = "/"

\* s without the separators it ends with.
RECURSIVE DropTrailingSlashes(_)
DropTrailingSlashes(s) ==
    IF EndsWithSlash(s) THEN DropTrailingSlashes(SubSeq(s, 1, Len(s) - 1)) ELSE s

\* NormalizeBaseURL as a normalisation to exactly one trailing separator.
NormalizeBaseURLToOne(baseURL) == Append(DropTrailingSlashes(baseURL), "/")

\* baseURL.endsWith('/') ? baseURL : baseURL + '/'
NormalizeBaseURL(baseURL) ==
    IF EndsWithSlash(baseURL) THEN baseURL ELSE Append(baseURL, "/")

\* scope.every(s => validScopes.includes(s))
AllScopesValid(scope) == \A i \in 1..Len(scope) : scope[i] \in ScopeValues

\* ValidationMessage with each enum check made together with the presence
\* check of the same field.
ValidationMessageFieldByField(in) ==
    IF Falsy(in.clientId) THEN "Client ID is required"
    ELSE IF Falsy(in.clientSecret) THEN "Client secret is required"
    ELSE IF Falsy(in.grantType) THEN "Grant type is required"
    ELSE IF in.grantType \notin GrantTypeValues THEN "Invalid grant type"
    ELSE IF Len(in.scope) = 0 THEN "At least one scope must be provided"
    ELSE IF \E i \in 1..Len(in.scope) : in.scope[i] \notin ScopeValues
         THEN "Invalid scope value provided"
    ELSE IF in.grantType = GrantType.AUTHORIZATION_CODE
            /\ (Falsy(in.username) \/ Falsy(in.password))
         THEN "Username and password are required for authorization_code grant type"
    ELSE ""

\* The checks of the constructor in the order the code makes them; the
\* message of the first that fails, or "" when none does.  A scope that is
\* left out and an empty array fail the same check (!scope ||
\* scope.length === 0): both are the empty sequence here.
ValidationMessage(in) ==
    IF Falsy(in.clientId) THEN "Client ID is required"
    ELSE IF Falsy(in.clientSecret) THEN "Client secret is required"
    ELSE IF Falsy(in.grantType) THEN "Grant type is required"
    ELSE IF Len(in.scope) = 0 THEN "At least one scope must be provided"
    ELSE IF in.grantType \notin GrantTypeValues THEN "Invalid grant type"
    ELSE IF ~AllScopesValid(in.scope) THEN "Invalid scope value provided"
    ELSE IF in.grantType = GrantType.AUTHORIZATION_CODE
            /\ (Falsy(in.username) \/ Falsy(in.password))
         THEN "Username and password are required for authorization_code grant type"
    ELSE ""

NoClient == [exists |-> FALSE]

\* The private fields the constructor sets once every check has passed.
ClientOf(in) ==
    [exists |-> TRUE,
     clientId |-> in.clientId,
     clientSecret |-> in.clientSecret,
     grantType |-> in.grantType,
     scope |-> in.scope,
     username |-> in.username,
     password |-> in.password,
     baseURL |-> NormalizeBaseURL(IF in.baseURL = <<Undefined>>
                                  THEN DefaultBaseURL ELSE in.baseURL)]

\* Constructor with the presence checks only: a grant type or a scope
\* outside its enum, or missing credentials, still yield a client.
ConstructorPresenceOnly(in) ==
    LET msg == IF Falsy(in.clientId) THEN "Client ID is required"
               ELSE IF Falsy(in.clientSecret) THEN "Client secret is required"
               ELSE IF Falsy(in.grantType) THEN "Grant type is required"
               ELSE IF Len(in.scope) = 0 THEN "At least one scope must be provided"
               ELSE ""
    IN  IF msg # ""
        THEN [error |-> ESignBaseSDKError(msg, {}), client |-> NoClient]
        ELSE [error |-> NoError, client |-> ClientOf(in)]

\* new ESignBaseClient(in): the error thrown and the client made.
Constructor(in) ==
    LET msg == ValidationMessage(in) IN
    IF msg # ""
    THEN [error |-> ESignBaseSDKError(msg, {}), client |-> NoClient]
    ELSE [error |-> NoError, client |-> ClientOf(in)]

\* The longest scope array among the constructor inputs tried.
MaxScopeLen == 2

ScopeInputs == {"read", "delete", "bogus"}

SeqsUpTo(S, n) == UNION {[1..k -> S] : k \in 0..n}

\* The constructor arguments tried: every combination of a present or absent
\* value per field, grant types and scopes inside and outside their enums.
CtorInputs ==
    [clientId : {Undefined, "id"},
     clientSecret : {Undefined, "secret"},
     grantType : {Undefined, "bad"} \cup GrantTypeValues,
     scope : SeqsUpTo(ScopeInputs, MaxScopeLen),
     username : {Undefined, "user"},
     password : {Undefined, "pw"},
     baseURL : {<<Undefined>>, <<"https://api.example.com">>,
                <<"https://api.example.com", "/">>}]

\* The argument before any constructor call.
NoInput ==
    [clientId |-> Undefined, clientSecret |-> Undefined, grantType |-> Undefined,
     scope |-> <<>>, username |-> Undefined, password |-> Undefined,
     baseURL |-> <<Undefined>>]


(***************************************************************************)
(* Requests                                                                *)
(***************************************************************************)

\* get isConnected(): !!this.#accessToken
IsConnected == ~Falsy(accessToken)

\* HTTP statuses the transport answers with.
Statuses == {200, 204, 401, 500}

\* response.ok
Ok(status) == status \in 200..299

\* Whether a response of this status has a body: response.body is null for
\* the null body statuses of fetch (of the success statuses, 204 and 205),
\* and reading such a response as JSON finds no token to parse.
HasBody(status) == status \notin {101, 103, 204, 205, 304}

\* The text of a non-success response's body, when it can be read.
BodyText == "Bad request"

\* The access_token of a token response whose JSON parses: a token, or
\* undefined when the object has no such field.
TokenData == {"t1", "t2", Undefined}

\* The JSON value null as the body of a token response: response.json()
\* resolves with null, which has no access_token to read.
NullBody == "null"

\* Spread with the first object winning: { ...b, ...a }.
SpreadFirstWins(a, b) ==
    [k \in DOMAIN a \cup DOMAIN b |-> IF k \in DOMAIN a THEN a[k] ELSE b[k]]

\* { ...a, ...b }: the keys of both, b's value where both have the key.
Spread(a, b) ==
    [k \in DOMAIN a \cup DOMAIN b |-> IF k \in DOMAIN b THEN b[k] ELSE a[k]]

\* options.headers when the caller gives none.
NoHeaders == [k \in {} |-> <<>>]

\* path.replace(/^\//, '')
StripLeadingSlash(path) ==
    IF Len(path) > 0 /\ path[1] = "/" THEN Tail(path) ELSE path

\* encodeURIComponent on the pieces of an identifier: "/" is escaped, the
\* unreserved pieces are kept.
EncodePiece(p) == IF p = "/" THEN "%2F" ELSE IF p = " " THEN "%20" ELSE p

EncodeURIComponent(s) == [i \in 1..Len(s) |-> EncodePiece(s[i])]

Digits == <<"0", "1", "2", "3", "4", "5", "6", "7", "8", "9">>

RECURSIVE Decimal(_)
\* String(n) for a natural number, which encodeURIComponent leaves as it is.
Decimal(n) ==
    IF n < 10 THEN <<Digits[n + 1]>>
    ELSE Decimal(n \div 10) \o <<Digits[(n % 10) + 1]>>

RECURSIVE Join(_, _)
\* scope.join(sep)
Join(s, sep) ==
    IF Len(s) = 0 THEN <<>>
    ELSE IF Len(s) = 1 THEN <<s[1]>>
    ELSE <<s[1], sep>> \o Join(Tail(s), sep)

\* Buffer.from(text).toString('base64'), kept symbolic: an injective tag.
Base64(text) == <<"base64(">> \o text \o <<")">>

\* The URLSearchParams body of the token request.
TokenForm(c) ==
    <<  <<"grant_type", <<c.grantType>> >>,
        <<"scope", Join(c.scope, " ")>> >>
    \o (IF c.grantType = GrantType.AUTHORIZATION_CODE
        THEN << <<"username", <<c.username>> >>, <<"password", <<c.password>> >> >>
        ELSE <<>>)

\* A transport call as fetch receives it, with what came back: state is
\* pending, response, rejected or aborted; status is the response's (0
\* before one arrives); read is what became of the body read (none, ok,
\* failed); data is the text or the access_token read.
Call(to, method, url, headers, body) ==
    [to |-> to, method |-> method, url |-> url, headers |-> headers,
     body |-> body, state |-> "pending", status |-> 0,
     read |-> "none", data |-> ""]

\* The fetch of connect(), src/index.js:176-205.
TokenCall(c) ==
    Call("token", "POST", c.baseURL \o <<"oauth2", "/", "token">>,
         ("Authorization" :> <<"Basic">> \o Base64(<<c.clientId, ":", c.clientSecret>>))
           @@ ("Content-Type" :> <<"application/x-www-form-urlencoded">>),
         <<TokenForm(c)>>)

\* The fetch of executeFetch, src/index.js:144-152, with the token stored
\* at the moment of the call.
ApiCall(task, token) ==
    Call("api", task.method, task.url,
         Spread("Authorization" :> <<"Bearer", token>>, task.headers),
         task.body)

(***************************************************************************)
(* The resource operations                                                 *)
(***************************************************************************)

\* The longest identifier, in pieces, given to the operations that take one.
MaxIdLen == 2

\* Identifiers given to the operations that take one: with and without a
\* piece that encodeURIComponent escapes.
Ids == SeqsUpTo({"a", "/"}, MaxIdLen) \ {<<>>}

\* (limit, offset) pairs given to getDocuments; <<20, 0>> are its defaults.
Pages == {<<20, 0>>}

NoDate == [isDate |-> FALSE, iso |-> ""]

\* createDocument arguments: a recipient carrying a field the request does
\* not send, with and without metadata and an expiration Date.
Docs ==
    {[templateId |-> "tpl", documentName |-> "Doc",
      recipients |-> << [email |-> "a@a.com", first_name |-> "A", last_name |-> "B",
                         role_name |-> "r", locale |-> "en", phone |-> "1"] >>,
      userDefinedMetadata |-> "meta",
      expirationDate |-> [isDate |-> TRUE, iso |-> "2020-01-01T00:00:00.000Z"]]}

NoDoc ==
    [templateId |-> "", documentName |-> "", recipients |-> <<>>,
     userDefinedMetadata |-> Undefined, expirationDate |-> NoDate]

Invocation(name, id, page, doc) ==
    [name |-> name, id |-> id, limit |-> page[1], offset |-> page[2], doc |-> doc]

\* The calls a caller can make on the eight resource methods.
Invocations ==
    {Invocation(n, <<>>, <<20, 0>>, NoDoc) : n \in {"getTemplates", "getCredits"}}
    \cup {Invocation(n, id, <<20, 0>>, NoDoc) :
            n \in {"getTemplate", "getDocument", "downloadDocument", "deleteDocument"},
            id \in Ids}
    \cup {Invocation("getDocuments", <<>>, p, NoDoc) : p \in Pages}
    \cup {Invocation("createDocument", <<>>, <<20, 0>>, d) : d \in Docs}

\* requestData of createDocument, src/index.js:252-270.  A field left
\* undefined is one JSON.stringify leaves out.
RequestData(doc) ==
    [name |-> doc.documentName,
     template_id |-> doc.templateId,
     recipients |-> [i \in 1..Len(doc.recipients) |->
                       [email |-> doc.recipients[i].email,
                        first_name |-> doc.recipients[i].first_name,
                        last_name |-> doc.recipients[i].last_name,
                        role_name |-> doc.recipients[i].role_name,
                        locale |-> doc.recipients[i].locale]],
     user_defined_metadata |-> IF Falsy(doc.userDefinedMetadata)
                               THEN Undefined ELSE doc.userDefinedMetadata,
     expiration_date |-> IF doc.expirationDate.isDate
                         THEN doc.expirationDate.iso ELSE Undefined]

\* What a resource method hands to #request, and how it decodes the
\* response: method, path, options.headers, options.body, retry.
Request(method, path, headers, body, retry, decode) ==
    [method |-> method, path |-> path, headers |-> headers, body |-> body,
     retry |-> retry, decode |-> decode]

OpRequest(inv) ==
    CASE inv.name = "getTemplates" ->
           Request("GET", <<"api", "/", "templates">>, NoHeaders, <<>>, TRUE, "json")
      [] inv.name = "getTemplate" ->
           Request("GET", <<"api", "/", "template", "/">> \o EncodeURIComponent(inv.id),
                   NoHeaders, <<>>, TRUE, "json")
      [] inv.name = "getDocuments" ->
           Request("GET", <<"api", "/", "documents", "?limit=">> \o Decimal(inv.limit)
                          \o <<"&offset=">> \o Decimal(inv.offset),
                   NoHeaders, <<>>, TRUE, "json")
      [] inv.name = "getDocument" ->
           Request("GET", <<"api", "/", "document", "/">> \o EncodeURIComponent(inv.id),
                   NoHeaders, <<>>, TRUE, "json")
      [] inv.name = "createDocument" ->
           Request("POST", <<"api", "/", "document">>,
                   "Content-Type" :> <<"application/json">>,
                   <<RequestData(inv.doc)>>, TRUE, "json")
      [] inv.name = "downloadDocument" ->
           Request("GET", <<"api", "/", "document", "/">> \o EncodeURIComponent(inv.id)
                          \o <<"/", "download">>,
                   NoHeaders, <<>>, FALSE, "stream")
      [] inv.name = "deleteDocument" ->
           Request("DELETE", <<"api", "/", "document", "/">> \o EncodeURIComponent(inv.id),
                   NoHeaders, <<>>, TRUE, "true")
      [] inv.name = "getCredits" ->
           Request("GET", <<"api", "/", "credits">>, NoHeaders, <<>>, TRUE, "json")

\* Arguments #request is applied to beyond those the eight resource methods
\* pass: a path with a leading separator, options.headers with an entry of
\* the caller's own and with an Authorization entry, either retry flag.  The
\* response is handed back as it is.  src/index.js:129
PipelinePaths ==
    {<<"api", "/", "templates">>, <<"/", "api", "/", "templates">>,
     <<"/", "/", "api", "/", "templates">>}

PipelineHeaders ==
    {NoHeaders,
     "X-Trace" :> <<"1">>,
     "Authorization" :> <<"Basic", "caller">>,
     ("Authorization" :> <<"Basic", "caller">>) @@ ("X-Trace" :> <<"1">>)}

PipelineRequests ==
    {Request("GET", path, headers, <<>>, retry, "response") :
        path \in PipelinePaths, headers \in PipelineHeaders, retry \in BOOLEAN}


(***************************************************************************)
(* Operations in flight                                                    *)
(***************************************************************************)

\* The slots an operation can run in: two calls can be in flight at once.
Tasks == {"a", "b"}

\* A slot with no operation in it.
Idle ==
    [op |-> "idle", pc |-> "idle", method |-> "", path |-> <<>>, url |-> <<>>,
     headers |-> NoHeaders, body |-> <<>>, retry |-> FALSE, decode |-> "",
     calls |-> <<>>, timers |-> 0, error |-> NoError, result |-> ""]

\* The entry of the call the task is waiting on, changed.
Answered(task, state, status) ==
    [task.calls EXCEPT ![Len(task.calls)] =
        [@ EXCEPT !.state = state, !.status = status]]

BodyRead(task, read, data) ==
    [task.calls EXCEPT ![Len(task.calls)] =
        [@ EXCEPT !.read = read, !.data = data]]

\* The operation ends by throwing error.
Throw(task, error) == [task EXCEPT !.pc = "done", !.error = error]

\* The operation ends by returning: result names what it returns.
Return(task, result) == [task EXCEPT !.pc = "done", !.result = result]

\* connect() up to its await fetch: the timer is armed and the token
\* request is sent.  src/index.js:176-205
BeginExchange(task) ==
    [task EXCEPT !.pc = "tokenFetch",
                 !.calls = Append(@, TokenCall(client)),
                 !.timers = @ + 1]

\* executeFetch up to its await fetch: the timer is armed and the request
\* is sent with the token stored now.  src/index.js:136-152
ExecuteFetch(task, token, pc) ==
    [task EXCEPT !.pc = pc,
                 !.calls = Append(@, ApiCall(task, token)),
                 !.timers = @ + 1]

\* BeginRequest without the isConnected guard.
BeginRequestUnguarded(inv) ==
    LET rq == OpRequest(inv)
        task == [Idle EXCEPT !.op = inv.name,
                             !.method = rq.method,
                             !.url = client.baseURL \o StripLeadingSlash(rq.path),
                             !.headers = rq.headers,
                             !.body = rq.body,
                             !.retry = rq.retry,
                             !.decode = rq.decode]
    IN  ExecuteFetch(task, accessToken, "fetch1")

\* #request(rq.method, rq.path, {headers, body}, rq.retry) up to its first
\* await, on behalf of the operation named op.  src/index.js:129-160
EnterRequest(op, rq) ==
    LET task == [Idle EXCEPT !.op = op,
                             !.method = rq.method,
                             !.path = rq.path,
                             !.url = client.baseURL \o StripLeadingSlash(rq.path),
                             !.headers = rq.headers,
                             !.body = rq.body,
                             !.retry = rq.retry,
                             !.decode = rq.decode]
    IN  IF ~IsConnected
        THEN Throw(task, ESignBaseSDKError(
                 "Client is not connected. Call connect() first.", {}))
        ELSE ExecuteFetch(task, accessToken, "fetch1")

\* A resource method up to the first await of its #request call.
\* src/index.js:216-302
BeginRequest(inv) == EnterRequest(inv.name, OpRequest(inv))

\* #handleResponse and what the resource method does with a response it
\* returns, up to the next await.  src/index.js:115-127, 216-302
HandleResponse(task, status) ==
    IF ~Ok(status) THEN [task EXCEPT !.pc = "text"]
    ELSE IF task.decode = "json" THEN [task EXCEPT !.pc = "json"]
    ELSE IF task.decode = "stream"
         THEN IF HasBody(status) THEN Return(task, "stream")
              ELSE Throw(task, StreamArgumentError)
    ELSE IF task.decode = "response" THEN Return(task, "response")
    ELSE Return(task, "true")

\* RetriesOn as a retry that calls #request again with the same flag: a
\* 401 to the second dispatch reauthenticates too.
RetriesOnEvery401(task, status) == status = 401 /\ task.retry

\* RetriesOn without the retry flag.
RetriesOnIgnoringFlag(task, status) == task.pc = "fetch1" /\ status = 401

\* Whether #request reauthenticates on this response, src/index.js:163.
RetriesOn(task, status) == task.pc = "fetch1" /\ status = 401 /\ task.retry

(***************************************************************************)
(* Actions                                                                 *)
(***************************************************************************)

\* new ESignBaseClient(in), once.
Construct(in) ==
    /\ ~client.exists
    /\ ctorErr = NoError
    /\ ctorIn' = in
    /\ ctorErr' = Constructor(in).error
    /\ client' = Constructor(in).client
    /\ UNCHANGED <<accessToken, tasks>>

\* client.connect() is called, whatever else is in flight.
StartConnect(t) ==
    /\ client.exists
    /\ tasks[t].pc = "idle"
    /\ tasks' = [tasks EXCEPT ![t] = BeginExchange([Idle EXCEPT !.op = "connect"])]
    /\ UNCHANGED <<ctorIn, ctorErr, client, accessToken>>

\* A resource method is called.
StartRequest(t, inv) ==
    /\ client.exists
    /\ tasks[t].pc = "idle"
    /\ tasks' = [tasks EXCEPT ![t] = BeginRequest(inv)]
    /\ UNCHANGED <<ctorIn, ctorErr, client, accessToken>>

\* #request is applied to arguments of PipelineRequests.
CallRequest(t, rq) ==
    /\ client.exists
    /\ tasks[t].pc = "idle"
    /\ tasks' = [tasks EXCEPT ![t] = EnterRequest("#request", rq)]
    /\ UNCHANGED <<ctorIn, ctorErr, client, accessToken>>

\* The fetch of a resource request resolves with a response: executeFetch
\* resumes, its finally block clears the timer and it returns the response.
\* #request resumes in a later job: for a 401 on a retryable first dispatch
\* that job is Reauthenticate, for any other response #handleResponse runs
\* in it.  src/index.js:154-168
FetchRespond(t, status) ==
    LET task == tasks[t]
        got == [task EXCEPT !.calls = Answered(task, "response", status),
                            !.timers = @ - 1]
    IN  /\ task.pc \in {"fetch1", "fetch2"}
        /\ tasks' = [tasks EXCEPT ![t] =
                        IF RetriesOn(task, status) THEN [got EXCEPT !.pc = "retry"]
                        ELSE HandleResponse(got, status)]
        /\ UNCHANGED <<ctorIn, ctorErr, client, accessToken>>

\* Reauthenticate with reauthentication coalesced across requests: a
\* request answered 401 while another call is exchanging the token starts
\* no exchange of its own, it is sent again once that one has ended.
ReauthenticateCoalesced(t) ==
    LET exchanging == \E u \in Tasks \ {t} :
                         tasks[u].pc \in {"tokenFetch", "tokenText", "tokenJson"}
    IN  /\ tasks[t].pc = "retry"
        /\ tasks' = [tasks EXCEPT ![t] =
                        IF exchanging THEN [tasks[t] EXCEPT !.pc = "reconnected"]
                        ELSE BeginExchange(tasks[t])]
        /\ UNCHANGED <<ctorIn, ctorErr, client, accessToken>>

\* #request resumes with the 401 of its first dispatch and calls connect(),
\* which arms its timer and sends the token request.  src/index.js:163-164
Reauthenticate(t) ==
    /\ tasks[t].pc = "retry"
    /\ tasks' = [tasks EXCEPT ![t] = BeginExchange(tasks[t])]
    /\ UNCHANGED <<ctorIn, ctorErr, client, accessToken>>

\* FetchReject with the timer cleared only after a fetch that resolved
\* (no finally block): a rejection leaves the timer armed.
FetchRejectLeavesTimer(t) ==
    LET task == tasks[t] IN
    /\ task.pc \in {"fetch1", "fetch2", "tokenFetch"}
    /\ tasks' = [tasks EXCEPT ![t] =
                    Throw([task EXCEPT !.calls = Answered(task, "rejected", 0)],
                          TransportError)]
    /\ UNCHANGED <<ctorIn, ctorErr, client, accessToken>>

\* A fetch (of a resource request or of the token request) rejects: the
\* finally block clears the timer and the rejection reaches the caller.
FetchReject(t) ==
    LET task == tasks[t] IN
    /\ task.pc \in {"fetch1", "fetch2", "tokenFetch"}
    /\ tasks' = [tasks EXCEPT ![t] =
                    Throw([task EXCEPT !.calls = Answered(task, "rejected", 0),
                                       !.timers = @ - 1],
                          TransportError)]
    /\ UNCHANGED <<ctorIn, ctorErr, client, accessToken>>

\* The timer of a pending fetch fires: controller.abort() makes the fetch
\* reject with an AbortError, which reaches the caller.
FetchTimeout(t) ==
    LET task == tasks[t] IN
    /\ task.pc \in {"fetch1", "fetch2", "tokenFetch"}
    /\ task.timers > 0
    /\ tasks' = [tasks EXCEPT ![t] =
                    Throw([task EXCEPT !.calls = Answered(task, "aborted", 0),
                                       !.timers = @ - 1],
                          AbortError)]
    /\ UNCHANGED <<ctorIn, ctorErr, client, accessToken>>

\* TokenRespond in a connect() that goes through the retrying pipeline: a
\* 401 of the token endpoint to its first token request starts a second.
TokenRespondRetried(t, status) ==
    LET task == tasks[t]
        got == [task EXCEPT !.calls = Answered(task, "response", status)]
    IN  /\ task.pc = "tokenFetch"
        /\ tasks' = [tasks EXCEPT ![t] =
                        IF status = 401 /\ Len(task.calls) = 1
                        THEN BeginExchange([got EXCEPT !.timers = @ - 1])
                        ELSE [got EXCEPT !.pc = IF Ok(status) THEN "tokenJson"
                                                ELSE "tokenText"]]
        /\ UNCHANGED <<ctorIn, ctorErr, client, accessToken>>

\* TokenRespond in a #request that swallows a failed reauthentication: after
\* a non-success answer of the token endpoint it sends the request again.
TokenRespondSwallowed(t, status) ==
    LET task == tasks[t] IN
    /\ task.pc = "tokenFetch"
    /\ tasks' = [tasks EXCEPT ![t] =
                    [task EXCEPT !.calls = Answered(task, "response", status),
                                 !.timers = IF Ok(status) THEN @ ELSE @ - 1,
                                 !.pc = IF Ok(status) THEN "tokenJson"
                                        ELSE IF task.op = "connect" THEN "tokenText"
                                        ELSE "reconnected"]]
    /\ UNCHANGED <<ctorIn, ctorErr, client, accessToken>>

\* The token request resolves with a response: #handleResponse reads the
\* text of a non-success one, connect() the JSON of a success.
\* src/index.js:207-209
TokenRespond(t, status) ==
    LET task == tasks[t] IN
    /\ task.pc = "tokenFetch"
    /\ tasks' = [tasks EXCEPT ![t] =
                    [task EXCEPT !.calls = Answered(task, "response", status),
                                 !.pc = IF Ok(status) THEN "tokenJson" ELSE "tokenText"]]
    /\ UNCHANGED <<ctorIn, ctorErr, client, accessToken>>

\* response.text() of a non-success response settles: the error carries the
\* text, or 'Unknown error' when the read failed, and the status.  Inside
\* connect() the finally block then clears the timer.  src/index.js:116-124
TextRead(t, readable) ==
    LET task == tasks[t]
        call == task.calls[Len(task.calls)]
        message == IF readable THEN BodyText ELSE "Unknown error"
    IN  /\ task.pc \in {"text", "tokenText"}
        /\ tasks' = [tasks EXCEPT ![t] =
                        Throw([task EXCEPT
                                 !.calls = BodyRead(task,
                                             IF readable THEN "ok" ELSE "failed",
                                             IF readable THEN BodyText ELSE ""),
                                 !.timers = IF task.pc = "tokenText" THEN @ - 1 ELSE @],
                              ESignBaseSDKError(message, {call.status}))]
        /\ UNCHANGED <<ctorIn, ctorErr, client, accessToken>>

\* The timer of connect(), armed until its finally block, fires while
\* #handleResponse reads the text of a non-success token response: the
\* abort makes response.text() reject, the catch turns the rejection into
\* the fallback message, and the error thrown carries the status.
\* src/index.js:116-124, 190-191, 207
TokenTextTimeout(t) ==
    LET task == tasks[t]
        call == task.calls[Len(task.calls)]
    IN  /\ task.pc = "tokenText"
        /\ task.timers > 0
        /\ tasks' = [tasks EXCEPT ![t] =
                        Throw([task EXCEPT !.calls = BodyRead(task, "aborted", ""),
                                           !.timers = @ - 1],
                              ESignBaseSDKError("Unknown error", {call.status}))]
        /\ UNCHANGED <<ctorIn, ctorErr, client, accessToken>>

\* response.json() of a resource response settles: it resolves (error is
\* NoError) or rejects with error, which reaches the caller as it is.  A
\* response without a body does not parse.  src/index.js:218
JsonRead(t, error) ==
    LET task == tasks[t] IN
    /\ task.pc = "json"
    /\ HasBody(task.calls[Len(task.calls)].status) \/ error = EndOfInputError
    /\ tasks' = [tasks EXCEPT ![t] =
                    IF error = NoError
                    THEN Return([task EXCEPT !.calls = BodyRead(task, "ok", "")], "json")
                    ELSE Throw([task EXCEPT !.calls = BodyRead(task, "failed", "")],
                               error)]
    /\ UNCHANGED <<ctorIn, ctorErr, client, accessToken>>

\* TokenJsonRead in a connect() that keeps a token already stored: the
\* first successful exchange wins.
TokenJsonReadKeepsFirst(t, data) ==
    LET task == tasks[t]
        got == [task EXCEPT !.calls = BodyRead(task, "ok", data),
                            !.timers = @ - 1]
    IN  /\ task.pc = "tokenJson"
        /\ HasBody(task.calls[Len(task.calls)].status)
        /\ accessToken' = IF IsConnected \/ data = NullBody THEN accessToken ELSE data
        /\ tasks' = [tasks EXCEPT ![t] =
                        IF data = NullBody THEN Throw(got, NullPropertyError)
                        ELSE IF task.op = "connect" THEN Return(got, "void")
                        ELSE [got EXCEPT !.pc = "reconnected"]]
        /\ UNCHANGED <<ctorIn, ctorErr, client>>

\* response.json() of the token response resolves.  With an object whose
\* access_token is data: it is stored and the timer cleared, and connect()
\* returns, to its caller or to #request.  With null (data is NullBody):
\* reading its access_token throws, nothing is stored, the timer is
\* cleared and the TypeError reaches the caller.  src/index.js:209-213
TokenJsonRead(t, data) ==
    LET task == tasks[t]
        got == [task EXCEPT !.calls = BodyRead(task, "ok", data),
                            !.timers = @ - 1]
    IN  /\ task.pc = "tokenJson"
        /\ HasBody(task.calls[Len(task.calls)].status)
        /\ accessToken' = IF data = NullBody THEN accessToken ELSE data
        /\ tasks' = [tasks EXCEPT ![t] =
                        IF data = NullBody THEN Throw(got, NullPropertyError)
                        ELSE IF task.op = "connect" THEN Return(got, "void")
                        ELSE [got EXCEPT !.pc = "reconnected"]]
        /\ UNCHANGED <<ctorIn, ctorErr, client>>

\* Redispatch in a #request that captured the token when it started: the
\* request is sent again with the bearer of the first dispatch.
RedispatchCaptured(t) ==
    /\ tasks[t].pc = "reconnected"
    /\ tasks' = [tasks EXCEPT ![t] =
                    ExecuteFetch(tasks[t],
                                 tasks[t].calls[1].headers["Authorization"][2],
                                 "fetch2")]
    /\ UNCHANGED <<ctorIn, ctorErr, client, accessToken>>

\* #request resumes after its await this.connect() and sends the request
\* again, with the token stored at that moment.  src/index.js:165
Redispatch(t) ==
    /\ tasks[t].pc = "reconnected"
    /\ tasks' = [tasks EXCEPT ![t] = ExecuteFetch(tasks[t], accessToken, "fetch2")]
    /\ UNCHANGED <<ctorIn, ctorErr, client, accessToken>>

\* TokenJsonFail in a connect() that resets the session when the token
\* response cannot be read.
TokenJsonFailClearsToken(t, error) ==
    LET task == tasks[t] IN
    /\ task.pc = "tokenJson"
    /\ HasBody(task.calls[Len(task.calls)].status) \/ error = EndOfInputError
    /\ accessToken' = Null
    /\ tasks' = [tasks EXCEPT ![t] =
                    Throw([task EXCEPT !.calls = BodyRead(task, "failed", ""),
                                       !.timers = @ - 1],
                          error)]
    /\ UNCHANGED <<ctorIn, ctorErr, client>>

\* response.json() of the token response rejects (the body does not parse,
\* the connection is closed before it has arrived, or the timer, still
\* armed, aborts the read): the timer is cleared and the rejection reaches
\* the caller.  src/index.js:209-213
TokenJsonFail(t, error) ==
    LET task == tasks[t] IN
    /\ task.pc = "tokenJson"
    /\ HasBody(task.calls[Len(task.calls)].status) \/ error = EndOfInputError
    /\ tasks' = [tasks EXCEPT ![t] =
                    Throw([task EXCEPT !.calls = BodyRead(task, "failed", ""),
                                       !.timers = @ - 1],
                          error)]
    /\ UNCHANGED <<ctorIn, ctorErr, client, accessToken>>

\* The caller has seen the outcome; the slot is free for the next call.
Release(t) ==
    /\ tasks[t].pc = "done"
    /\ tasks' = [tasks EXCEPT ![t] = Idle]
    /\ UNCHANGED <<ctorIn, ctorErr, client, accessToken>>

(***************************************************************************)
(* Specifications                                                          *)
(***************************************************************************)

\* No client yet: the state a constructor call starts from.
InitCtor ==
    /\ ctorIn = NoInput
    /\ ctorErr = NoError
    /\ client = NoClient
    /\ accessToken = Null
    /\ tasks = [t \in Tasks |-> Idle]

NextCtor == \E in \in CtorInputs : Construct(in)

\* The constructor on every input.
SpecCtor == InitCtor /\ [][NextCtor]_vars

\* The constructor arguments the client of Spec is made with.
ClientInputs ==
    {[clientId |-> "id", clientSecret |-> "secret",
      grantType |-> GrantType.CLIENT_CREDENTIALS, scope |-> <<"read">>,
      username |-> Undefined, password |-> Undefined,
      baseURL |-> <<"https://api.example.com">>]}

\* The access_tokens the token endpoint issues in Spec.
IssuedTokens == {"t1", "t2"}

\* The calls the caller makes in Spec: one of each of the eight methods,
\* those with an identifier on one that has to be escaped.
OverlappedCalls == {inv \in Invocations : inv.id \in {<<>>, <<"a", "/">>}}

\* The state after construction: #accessToken = null, nothing in flight.
Init ==
    /\ ctorIn \in ClientInputs
    /\ ctorErr = Constructor(ctorIn).error
    /\ client = Constructor(ctorIn).client
    /\ accessToken = Null
    /\ tasks = [t \in Tasks |-> Idle]

Next ==
    \/ \E t \in Tasks : StartConnect(t)
    \/ \E t \in Tasks, inv \in OverlappedCalls : StartRequest(t, inv)
    \/ \E t \in Tasks, status \in Statuses : FetchRespond(t, status)
    \/ \E t \in Tasks : Reauthenticate(t)
    \/ \E t \in Tasks : FetchReject(t)
    \/ \E t \in Tasks : FetchTimeout(t)
    \/ \E t \in Tasks, status \in Statuses : TokenRespond(t, status)
    \/ \E t \in Tasks, readable \in BOOLEAN : TextRead(t, readable)
    \/ \E t \in Tasks : TokenTextTimeout(t)
    \/ \E t \in Tasks, error \in {NoError} \cup JsonErrors : JsonRead(t, error)
    \/ \E t \in Tasks, data \in IssuedTokens \cup {NullBody} : TokenJsonRead(t, data)
    \/ \E t \in Tasks, error \in JsonErrors \cup {AbortError} : TokenJsonFail(t, error)
    \/ \E t \in Tasks : Redispatch(t)
    \/ \E t \in Tasks : Release(t)

\* A client in use by two callers at once: every interleaving of the
\* continuations of any two calls, each of connect() or a resource method,
\* against a token endpoint whose success answers carry a token.
Spec == Init /\ [][Next]_vars

\* The continuation of the call in slot t runs: a promise the transport
\* handed out (a fetch, a body read) settles, or #request resumes after its
\* await this.connect().
Settle(t) ==
    \/ \E status \in Statuses : FetchRespond(t, status)
    \/ Reauthenticate(t)
    \/ FetchReject(t)
    \/ FetchTimeout(t)
    \/ \E status \in Statuses : TokenRespond(t, status)
    \/ \E readable \in BOOLEAN : TextRead(t, readable)
    \/ TokenTextTimeout(t)
    \/ \E error \in {NoError} \cup JsonErrors : JsonRead(t, error)
    \/ \E data \in TokenData \cup {NullBody} : TokenJsonRead(t, data)
    \/ \E error \in JsonErrors \cup {AbortError} : TokenJsonFail(t, error)
    \/ Redispatch(t)

\* The clients of SpecPipeline: the one of Spec, one of the other grant
\* type made with the default baseURL, and one made with a baseURL that
\* ends in two separators.
PipelineClientInputs ==
    ClientInputs \cup
    {[clientId |-> "id", clientSecret |-> "secret",
      grantType |-> GrantType.AUTHORIZATION_CODE, scope |-> <<"read", "delete">>,
      username |-> "user", password |-> "pw",
      baseURL |-> <<Undefined>>],
     [clientId |-> "id", clientSecret |-> "secret",
      grantType |-> GrantType.CLIENT_CREDENTIALS, scope |-> <<"read">>,
      username |-> Undefined, password |-> Undefined,
      baseURL |-> <<"https://api.example.com", "/", "/">>]}

InitPipeline ==
    /\ ctorIn \in PipelineClientInputs
    /\ ctorErr = Constructor(ctorIn).error
    /\ client = Constructor(ctorIn).client
    /\ accessToken = Null
    /\ tasks = [t \in Tasks |-> Idle]

\* One call at a time, in slot a.
NextPipeline ==
    \/ StartConnect("a")
    \/ \E inv \in Invocations : StartRequest("a", inv)
    \/ \E rq \in PipelineRequests : CallRequest("a", rq)
    \/ \E status \in Statuses : FetchRespond("a", status)
    \/ Reauthenticate("a")
    \/ FetchReject("a")
    \/ FetchTimeout("a")
    \/ \E status \in Statuses : TokenRespond("a", status)
    \/ \E readable \in BOOLEAN : TextRead("a", readable)
    \/ TokenTextTimeout("a")
    \/ \E error \in {NoError} \cup JsonErrors : JsonRead("a", error)
    \/ \E data \in TokenData \cup {NullBody} : TokenJsonRead("a", data)
    \/ \E error \in JsonErrors \cup {AbortError} : TokenJsonFail("a", error)
    \/ Redispatch("a")
    \/ Release("a")

\* The request pipeline on every argument: the resource methods, connect()
\* and #request itself, one call after another, against a token endpoint
\* whose success answers may carry no access_token.
SpecPipeline == InitPipeline /\ [][NextPipeline]_vars

\* SpecPipeline where every promise of the transport settles in the end (a
\* fetch at the latest when its timer fires) and the event loop runs every
\* continuation that is ready.
SpecLive == SpecPipeline /\ WF_vars(Settle("a"))


(***************************************************************************)
(* Properties                                                              *)
(***************************************************************************)

NotConnectedError ==
    ESignBaseSDKError("Client is not connected. Call connect() first.", {})

ResourceOps == {inv.name : inv \in Invocations}

RetryableOps == ResourceOps \ {"downloadDocument"}

\* The bearer token a dispatch was sent with.
BearerOf(call) == call.headers["Authorization"][2]

\* A token exchange that connect() returned from without error.
ExchangeSucceeded(call) ==
    /\ call.to = "token"
    /\ call.state = "response"
    /\ Ok(call.status)
    /\ call.read = "ok"
    /\ call.data # NullBody

Answered401(call) == call.state = "response" /\ call.status = 401

SameRequest(c, d) == c.method = d.method /\ c.url = d.url /\ c.body = d.body

\* C1 for one operation.
RetriesOnce(task) ==
    LET c == task.calls IN
    (task.op \in RetryableOps /\ Len(c) >= 1 /\ Answered401(c[1])) =>
        \/ task.pc = "retry" /\ Len(c) = 1 /\ c[1].to = "api"
        \/ /\ Len(c) \in 2..3
           /\ c[1].to = "api" /\ c[2].to = "token"
           /\ ExchangeSucceeded(c[2]) =>
                 \/ task.pc = "reconnected" /\ Len(c) = 2
                 \/ Len(c) = 3 /\ c[3].to = "api" /\ SameRequest(c[3], c[1])
           /\ (Len(c) = 3 /\ Answered401(c[3])) =>
                 /\ task.pc \in {"text", "done"}
                 /\ task.pc = "done" =>
                       /\ task.error.name = "ESignBaseSDKError"
                       /\ task.error.statusCode = {401}

\* C1: a retryable operation whose first dispatch is answered 401 makes one
\* token exchange, in the continuation that follows the answer; when that exchange succeeds it is followed by one
\* redispatch of the same method, URL and body; a 401 to the redispatch
\* ends the operation with an error of status 401, after three transport
\* calls in all.
C1_RetryOnceOn401 == \A t \in Tasks : RetriesOnce(tasks[t])

\* A retryable operation ended by a second 401.
C1_Witness ==
    \E t \in Tasks :
        /\ tasks[t].op = "deleteDocument"
        /\ tasks[t].pc = "done"
        /\ Len(tasks[t].calls) = 3
        /\ Answered401(tasks[t].calls[1])
        /\ ExchangeSucceeded(tasks[t].calls[2])
        /\ Answered401(tasks[t].calls[3])
        /\ tasks[t].error.statusCode = {401}

\* C2: #accessToken is its initial null only while no token exchange has
\* succeeded, and as long as it is, isConnected is false and every resource
\* operation called has ended with the 'not connected' error, which
\* carries no status code, without a transport call.
C2_NotConnectedGuard ==
    /\ \A t \in Tasks : \A i \in 1..Len(tasks[t].calls) :
          ExchangeSucceeded(tasks[t].calls[i]) => accessToken # Null
    /\ accessToken = Null =>
          /\ ~IsConnected
          /\ \A t \in Tasks :
                tasks[t].op \in ResourceOps =>
                    /\ tasks[t].pc = "done"
                    /\ tasks[t].error = NotConnectedError
                    /\ tasks[t].calls = <<>>

\* createDocument refused on a client that never connected.
C2_Witness ==
    /\ accessToken = Null
    /\ \E t \in Tasks :
          /\ tasks[t].op = "createDocument"
          /\ tasks[t].pc = "done"
          /\ tasks[t].error = NotConnectedError

\* The step in which the connect() call of slot t returns without error.
ConnectReturns(t) ==
    /\ tasks[t].op = "connect"
    /\ tasks[t].pc = "tokenJson"
    /\ tasks'[t].pc = "done"
    /\ tasks'[t].error = NoError

\* The step in which a resource operation is called in slot t.
RequestStarts(t) ==
    /\ tasks[t].pc = "idle"
    /\ tasks'[t].op \in ResourceOps

\* C3, as claimed: when connect() returns without error isConnected is
\* true and the stored token is the access_token of the response; a
\* resource operation called once an exchange has returned dispatches,
\* with the stored token as its bearer.
C3_ConnectedAfterConnect ==
    [][\A t \in Tasks :
          /\ ConnectReturns(t) =>
                /\ IsConnected'
                /\ accessToken' = tasks'[t].calls[1].data
          /\ (RequestStarts(t) /\ accessToken \in TokenData) =>
                /\ Len(tasks'[t].calls) = 1
                /\ BearerOf(tasks'[t].calls[1]) = accessToken]_vars

\* C4, as claimed: no request is dispatched with an absent or empty token.
C4_NoDispatchWithoutToken ==
    \A t \in Tasks : \A i \in 1..Len(tasks[t].calls) :
        tasks[t].calls[i].to = "api" => ~Falsy(BearerOf(tasks[t].calls[i]))

\* C5, as claimed: the token starts absent, isConnected once true stays
\* true, and the token changes only in the step that ends a successful
\* exchange, to the token of that exchange.
C5_TokenNeverCleared ==
    /\ accessToken = Null
    /\ [][/\ IsConnected => IsConnected'
          /\ accessToken' # accessToken =>
                \E t \in Tasks :
                    /\ tasks[t].pc = "tokenJson"
                    /\ ExchangeSucceeded(tasks'[t].calls[Len(tasks'[t].calls)])
                    /\ accessToken' = tasks'[t].calls[Len(tasks'[t].calls)].data]_vars


\* The constructor has been called: it threw or it made a client.
CtorCalled == ctorErr # NoError \/ client.exists

\* The validation rules one by one, in the order the code checks them, as
\* predicates of an argument (or of a client's fields).
RuleViolated(i, in) ==
    CASE i = 1 -> Falsy(in.clientId)
      [] i = 2 -> Falsy(in.clientSecret)
      [] i = 3 -> Falsy(in.grantType)
      [] i = 4 -> in.scope = <<>>
      [] i = 5 -> in.grantType \notin {"client_credentials", "authorization_code"}
      [] i = 6 -> \E j \in DOMAIN in.scope :
                     in.scope[j] \notin {"all", "read", "create_document", "delete", "sandbox"}
      [] i = 7 -> /\ in.grantType = "authorization_code"
                  /\ \E f \in {in.username, in.password} : Falsy(f)

RuleMessage ==
    << "Client ID is required",
       "Client secret is required",
       "Grant type is required",
       "At least one scope must be provided",
       "Invalid grant type",
       "Invalid scope value provided",
       "Username and password are required for authorization_code grant type" >>

Rules == DOMAIN RuleMessage

AnyRuleViolated(in) == \E i \in Rules : RuleViolated(i, in)

\* The first violated rule when the rules are taken in the order of ranks:
\* ranks[i] is the place of rule i.
FirstViolated(in, ranks) ==
    CHOOSE i \in Rules :
        /\ RuleViolated(i, in)
        /\ \A j \in Rules : RuleViolated(j, in) => ranks[i] <= ranks[j]

\* Rule by rule, as the code checks them.
CodeOrder == <<1, 2, 3, 4, 5, 6, 7>>

\* Field by field: grant type (present, member) before scope (non-empty,
\* members).
FieldOrder == <<1, 2, 3, 5, 4, 6, 7>>

\* C6, as claimed: the message is that of the first violated rule taking
\* the rules field by field: clientId, clientSecret, grantType present and
\* a member, scope non-empty and all members, credentials.
C6_FirstRuleFieldByField ==
    (CtorCalled /\ AnyRuleViolated(ctorIn)) =>
        ctorErr.message = RuleMessage[FirstViolated(ctorIn, FieldOrder)]

\* C6, amended: the message is that of the first violated rule in the
\* order clientId present, clientSecret present, grantType present, scope
\* non-empty, grantType a member of its enum, every scope a member of its
\* enum, username and password present for AUTHORIZATION_CODE.
C6_FirstRuleInCodeOrder ==
    (CtorCalled /\ AnyRuleViolated(ctorIn)) =>
        ctorErr.message = RuleMessage[FirstViolated(ctorIn, CodeOrder)]

\* An argument with a grant type outside the enum and an empty scope: the
\* scope rule decides the message.
C6_Witness ==
    /\ CtorCalled
    /\ RuleViolated(4, ctorIn) /\ RuleViolated(5, ctorIn)
    /\ ~RuleViolated(3, ctorIn)
    /\ ctorErr.message = "At least one scope must be provided"

\* C7: a constructor call whose argument violates a rule leaves no client,
\* makes no transport call and throws an ESignBaseSDKError without a
\* status code; a call whose argument violates none makes a client; every
\* client that exists satisfies every rule.
C7_FailFast ==
    /\ CtorCalled =>
          IF AnyRuleViolated(ctorIn)
          THEN /\ ~client.exists
               /\ ctorErr.name = "ESignBaseSDKError"
               /\ ctorErr.statusCode = {}
               /\ \A t \in Tasks : tasks[t].calls = <<>>
          ELSE client.exists /\ ctorErr = NoError
    /\ client.exists => ~AnyRuleViolated(client)

\* A call refused for the last rule alone.
C7_Witness ==
    /\ CtorCalled
    /\ \A i \in Rules : RuleViolated(i, ctorIn) <=> i = 7
    /\ ~client.exists
    /\ ctorErr.statusCode = {}

\* C8: downloadDocument makes one dispatch and no token exchange; when the
\* dispatch is answered 401 the operation reads the body and ends with an
\* error of status 401; no step of a downloadDocument changes the stored
\* token.
C8_DownloadNeverRetries ==
    /\ [](\A t \in Tasks :
            LET task == tasks[t] IN
            task.op = "downloadDocument" =>
                /\ Len(task.calls) <= 1
                /\ \A i \in 1..Len(task.calls) : task.calls[i].to = "api"
                /\ (Len(task.calls) = 1 /\ Answered401(task.calls[1])) =>
                      /\ task.pc \in {"text", "done"}
                      /\ task.pc = "done" =>
                            /\ task.error.name = "ESignBaseSDKError"
                            /\ task.error.statusCode = {401})
    /\ [][\A t \in Tasks :
            (tasks[t].op = "downloadDocument" /\ tasks'[t] # tasks[t])
                => accessToken' = accessToken]_vars

\* A download ended by a 401.
C8_Witness ==
    \E t \in Tasks :
        /\ tasks[t].op = "downloadDocument"
        /\ tasks[t].pc = "done"
        /\ Len(tasks[t].calls) = 1
        /\ Answered401(tasks[t].calls[1])
        /\ tasks[t].error.statusCode = {401}

\* C9, as claimed: every failure of connect() or of a resource operation
\* reaches the caller as an ESignBaseSDKError.
C9_EveryFailureIsSdkError ==
    \A t \in Tasks :
        (tasks[t].pc = "done" /\ tasks[t].error # NoError)
            => tasks[t].error.name = "ESignBaseSDKError"

\* The last transport call of an operation that has ended with one.
LastCall(task) == task.calls[Len(task.calls)]

EndedOnResponse(task) ==
    /\ task.pc = "done"
    /\ Len(task.calls) > 0
    /\ LastCall(task).state = "response"

\* The first half of C10: a final non-success response (any but the 401 of
\* a retryable first dispatch, which is retried) is read as text and
\* ends the operation with an error of the response's status and text, or
\* of 'Unknown error' when the text cannot be read.
NonSuccessIsTranslated(task) ==
    (Len(task.calls) > 0 /\ LastCall(task).state = "response"
       /\ ~Ok(LastCall(task).status)
       /\ ~(task.pc = "retry" /\ Len(task.calls) = 1 /\ task.retry
              /\ LastCall(task).status = 401)) =>
        /\ task.pc \in {"text", "tokenText", "done"}
        /\ task.pc = "done" =>
              /\ task.error.name = "ESignBaseSDKError"
              /\ task.error.statusCode = {LastCall(task).status}
              /\ task.error.message =
                    IF LastCall(task).read = "ok" THEN LastCall(task).data
                    ELSE "Unknown error"

\* The second half of C10: #handleResponse returns a success response as
\* it is.  The operation goes on to what follows #handleResponse (the read
\* of the body, the redispatch, the return) and never to the read of an
\* error text, and whatever it ends with after that response is not the
\* ESignBaseSDKError #handleResponse throws: it carries no status.
SuccessIsReturned(task) ==
    (Len(task.calls) > 0 /\ LastCall(task).state = "response"
       /\ Ok(LastCall(task).status)) =>
        /\ task.pc \in {"json", "tokenJson", "reconnected", "done"}
        /\ LastCall(task).read \in
              (IF task.pc \in {"json", "tokenJson"} THEN {"none"}
               ELSE {"none", "ok", "failed"})
        /\ task.error.name # "ESignBaseSDKError"
        /\ task.error.statusCode = {}

\* C10: a final non-success response (a token response, or a resource
\* response that is not the retried 401) ends the operation with an
\* ESignBaseSDKError of the response's status whose message is the body
\* text, or 'Unknown error' when the text cannot be read; a success
\* response is returned by #handleResponse and produces no such error.
C10_StatusTranslation ==
    \A t \in Tasks :
        /\ NonSuccessIsTranslated(tasks[t])
        /\ SuccessIsReturned(tasks[t])

\* A request answered 401 and sent again after a token exchange has ended
\* on a 500 whose text could not be read.
C10_Witness ==
    \E t \in Tasks :
        /\ tasks[t].op = "getTemplates" /\ EndedOnResponse(tasks[t])
        /\ Len(tasks[t].calls) = 3
        /\ LastCall(tasks[t]).status = 500 /\ LastCall(tasks[t]).read = "failed"
        /\ tasks[t].error = ESignBaseSDKError("Unknown error", {500})

(***************************************************************************)
(* C11: the Authorization header of a dispatch                             *)
(***************************************************************************)

\* The call task t dispatches in this step, if it dispatches one.
Dispatches(t) ==
    /\ Len(tasks'[t].calls) = Len(tasks[t].calls) + 1
    /\ tasks'[t].calls[Len(tasks'[t].calls)].to = "api"

Dispatched(t) == tasks'[t].calls[Len(tasks'[t].calls)]

\* The header the pipeline makes of the token stored when it dispatches.
BearerHeader == <<"Bearer", accessToken>>

\* C11 as stated: whatever options.headers holds, an Authorization entry
\* included, every dispatch sends Authorization: Bearer <stored token>, and
\* the caller's other headers are sent along.
C11_CallerCannotOverride ==
    [][\A t \in Tasks : Dispatches(t) =>
          /\ Dispatched(t).headers["Authorization"] = BearerHeader
          /\ \A k \in DOMAIN tasks'[t].headers \ {"Authorization"} :
                Dispatched(t).headers[k] = tasks'[t].headers[k]]_vars

\* C11 as the code has it: options.headers is merged last, so every entry
\* of it is sent as given, an Authorization entry included; the bearer of
\* the stored token is sent when options.headers has no Authorization
\* entry, which is the case in every call a resource method makes.
C11_CallerHeadersMergedLast ==
    [][\A t \in Tasks : Dispatches(t) =>
          LET sent == Dispatched(t).headers
              given == tasks'[t].headers
          IN  /\ DOMAIN sent = {"Authorization"} \cup DOMAIN given
              /\ \A k \in DOMAIN given : sent[k] = given[k]
              /\ "Authorization" \notin DOMAIN given
                    => sent["Authorization"] = BearerHeader
              /\ tasks'[t].op \in ResourceOps
                    => sent["Authorization"] = BearerHeader]_vars

\* A request whose options.headers held an Authorization entry has been
\* dispatched twice, the second time after a token exchange.
C11_Witness ==
    \E t \in Tasks :
        /\ "Authorization" \in DOMAIN tasks[t].headers
        /\ "X-Trace" \in DOMAIN tasks[t].headers
        /\ Len(tasks[t].calls) = 3
        /\ tasks[t].calls[3].to = "api"
        /\ tasks[t].calls[3].headers["Authorization"] = <<"Basic", "caller">>

(***************************************************************************)
(* C12: the base URL and the URLs made of it                               *)
(***************************************************************************)

\* How many separators s ends with.
RECURSIVE TrailingSlashes(_)
TrailingSlashes(s) ==
    IF Len(s) > 0 /\ s[Len(s)] = "/"
    THEN 1 + TrailingSlashes(SubSeq(s, 1, Len(s) - 1))
    ELSE 0

\* path without the separators it starts with.
RECURSIVE WithoutLeadingSlashes(_)
WithoutLeadingSlashes(path) ==
    IF Len(path) > 0 /\ path[1] = "/" THEN WithoutLeadingSlashes(Tail(path)) ELSE path

\* The baseURL the constructor was given, the default when it was given none.
GivenBaseURL == IF ctorIn.baseURL = <<Undefined>> THEN DefaultBaseURL ELSE ctorIn.baseURL

\* Every URL handed to the transport is prefix followed by what rest makes
\* of the path: oauth2/token for the token endpoint.
UrlsAre(prefix, rest(_)) ==
    \A t \in Tasks : \A i \in 1..Len(tasks[t].calls) :
        LET call == tasks[t].calls[i] IN
        /\ call.to = "token" => call.url = prefix \o <<"oauth2", "/", "token">>
        /\ call.to = "api" => call.url = prefix \o rest(tasks[t].path)

\* C12 as stated: the stored base URL ends with exactly one separator, and
\* every URL used is it followed by the path without leading separators.
C12_ExactlyOneSeparator ==
    client.exists =>
        /\ TrailingSlashes(client.baseURL) = 1
        /\ UrlsAre(client.baseURL, WithoutLeadingSlashes)

\* C12 as the code has it: the stored base URL is the one given, with one
\* separator appended when it ended with none, so it ends with the
\* separators it was given and with at least one; every URL used is it
\* followed by the path less one leading separator, when it has one.
C12_NormalizedPrefix ==
    client.exists =>
        /\ client.baseURL \in {GivenBaseURL, GivenBaseURL \o <<"/">>}
        /\ TrailingSlashes(client.baseURL)
              = IF TrailingSlashes(GivenBaseURL) = 0 THEN 1
                ELSE TrailingSlashes(GivenBaseURL)
        /\ UrlsAre(client.baseURL,
                   LAMBDA path : IF Len(path) > 0 /\ path[1] = "/"
                                 THEN SubSeq(path, 2, Len(path)) ELSE path)

\* A client given a base URL without a trailing separator has sent a token
\* request and a request whose path began with a separator.
C12_Witness ==
    /\ client.exists
    /\ TrailingSlashes(GivenBaseURL) = 0
    /\ \E t \in Tasks :
          /\ Len(tasks[t].path) > 0 /\ tasks[t].path[1] = "/"
          /\ Len(tasks[t].calls) = 3
          /\ tasks[t].calls[2].to = "token"
          /\ tasks[t].calls[3].to = "api"

(***************************************************************************)
(* C13: a resource operation ends, after at most two dispatches and one    *)
(* token exchange                                                          *)
(***************************************************************************)

\* How many of the transport calls of task went to the API / the token
\* endpoint.
CallsTo(task, to) == Cardinality({i \in 1..Len(task.calls) : task.calls[i].to = to})

\* The operation in slot t has ended, in SUCCESS (a result, no error) or in
\* FAILURE (an error, no result).
Ended(t) ==
    /\ tasks[t].pc = "done"
    /\ (tasks[t].error = NoError) # (tasks[t].result = "")

\* C13: once called, a resource operation ends in SUCCESS or FAILURE, and
\* at no step has it made more than two dispatches or more than one token
\* exchange, whatever the transport answers.
C13_EndsWithinTwoDispatches ==
    /\ [][\A t \in Tasks : tasks'[t].op \in ResourceOps =>
             /\ CallsTo(tasks'[t], "api") <= 2
             /\ CallsTo(tasks'[t], "token") <= 1]_vars
    /\ \A t \in Tasks :
          (tasks[t].op \in ResourceOps) ~> (tasks[t].op \in ResourceOps /\ Ended(t))

\* A resource operation has ended after a 401, a token exchange that the
\* token endpoint answered with 401 itself, and nothing more.
C13_Witness ==
    \E t \in Tasks :
        /\ tasks[t].op \in ResourceOps
        /\ Ended(t)
        /\ Len(tasks[t].calls) = 2
        /\ Answered401(tasks[t].calls[1])
        /\ tasks[t].calls[2].to = "token" /\ Answered401(tasks[t].calls[2])

(***************************************************************************)
(* C14: a failed reauthentication                                          *)
(***************************************************************************)

\* A token exchange that has failed: the fetch rejected or was aborted, the
\* token endpoint answered with a non-success status, or the body of its
\* success answer could not be read or was the JSON value null.
ExchangeFailed(call) ==
    /\ call.to = "token"
    /\ \/ call.state \in {"rejected", "aborted"}
       \/ call.state = "response" /\ ~Ok(call.status)
       \/ call.state = "response" /\ Ok(call.status) /\ call.read = "failed"
       \/ call.state = "response" /\ Ok(call.status) /\ call.read = "ok"
             /\ call.data = NullBody

\* error is the error of the failed exchange call: the rejection of the
\* fetch or of the body read, the TypeError of reading the access_token of
\* null, or the token endpoint's status with its body text (the fallback
\* message when the text could not be read).
IsErrorOf(error, call) ==
    CASE call.state = "rejected" -> error = TransportError
      [] call.state = "aborted" -> error = AbortError
      [] call.state = "response" /\ ~Ok(call.status) ->
            /\ error.name = "ESignBaseSDKError"
            /\ error.statusCode = {call.status}
            /\ error.message = IF call.read = "ok" THEN call.data ELSE "Unknown error"
      [] call.state = "response" /\ Ok(call.status) /\ call.read = "ok" ->
            error = NullPropertyError
      [] OTHER -> error \in JsonErrors \cup {AbortError}

\* C14: when the token exchange a 401 set off has failed, the operation
\* makes no further call and fails with the error of that exchange; all it
\* does in between is read the text of a non-success token response.
C14_FailedReauthPropagates ==
    \A t \in Tasks :
        LET task == tasks[t] IN
        (/\ task.op \in ResourceOps
         /\ Len(task.calls) >= 2
         /\ ExchangeFailed(task.calls[2])) =>
            /\ Len(task.calls) = 2
            /\ Answered401(task.calls[1])
            /\ \/ /\ task.pc = "tokenText"
                  /\ task.calls[2].read = "none"
                  /\ task.error = NoError
               \/ /\ task.pc = "done"
                  /\ task.result = ""
                  /\ IsErrorOf(task.error, task.calls[2])

\* A request answered 401 has failed with the 500 and the text the token
\* endpoint answered its reauthentication with.
C14_Witness ==
    \E t \in Tasks :
        /\ tasks[t].op \in ResourceOps
        /\ tasks[t].pc = "done"
        /\ Len(tasks[t].calls) = 2
        /\ Answered401(tasks[t].calls[1])
        /\ tasks[t].calls[2].to = "token"
        /\ tasks[t].calls[2].status = 500
        /\ tasks[t].error = ESignBaseSDKError(BodyText, {500})

(***************************************************************************)
(* C15: a failed connect() leaves the session as it was                    *)
(***************************************************************************)

\* The call in slot t is inside connect(), called directly or by #request.
InConnect(t) == tasks[t].pc \in {"tokenFetch", "tokenText", "tokenJson"}

\* The connect() of slot t fails in this step.
ConnectFails(t) ==
    /\ InConnect(t)
    /\ tasks'[t].pc = "done"
    /\ tasks'[t].error # NoError

\* The connect() of slot t returns in this step.
ConnectSucceeds(t) ==
    /\ InConnect(t)
    /\ ExchangeSucceeded(tasks'[t].calls[Len(tasks'[t].calls)])
    /\ tasks'[t].error = NoError

\* C15: the step in which a connect() fails, whatever the reason and
\* whoever called it, leaves the stored token and isConnected as they are;
\* and the stored token changes in no step but one in which a connect()
\* returns, so no earlier step of a failing connect() has touched it.
C15_FailedConnectKeepsToken ==
    /\ [][\A t \in Tasks : ConnectFails(t) =>
             /\ accessToken' = accessToken
             /\ Falsy(accessToken') = Falsy(accessToken)]_vars
    /\ [][accessToken' # accessToken => \E t \in Tasks : ConnectSucceeds(t)]_vars

\* With token t1 stored, a request sent with it was answered 401 and its
\* reauthentication has failed on a success body that does not parse: t1 is
\* still stored.
C15_Witness ==
    \E t \in Tasks :
        /\ accessToken = "t1"
        /\ tasks[t].op \in ResourceOps /\ tasks[t].pc = "done"
        /\ Len(tasks[t].calls) = 2
        /\ BearerOf(tasks[t].calls[1]) = "t1"
        /\ tasks[t].calls[2].to = "token"
        /\ Ok(tasks[t].calls[2].status)
        /\ tasks[t].calls[2].read = "failed"
        /\ tasks[t].error = ParseError

(***************************************************************************)
(* C16: timeouts                                                           *)
(***************************************************************************)

\* The timer of the call fired before the call was over: it aborted the
\* fetch, or the read of the body that followed it.
TimedOut(task, call) ==
    \/ call.state = "aborted"
    \/ call.state = "response" /\ call.read = "aborted"
    \/ call.state = "response" /\ call.read = "failed" /\ call.to = "token"
          /\ Ok(call.status) /\ task.error = AbortError

\* An operation whose dispatch or token exchange timed out has made no
\* call after it and has failed with the transport's failure, which is no
\* ESignBaseSDKError.
TimeoutEndsInAbort(task) ==
    \A i \in 1..Len(task.calls) :
        TimedOut(task, task.calls[i]) =>
            /\ i = Len(task.calls)
            /\ task.pc = "done"
            /\ task.error = AbortError
            /\ task.error.name # "ESignBaseSDKError"

\* C16 as stated: after every step, an operation one of whose calls timed
\* out has failed with the transport's failure, not an ESignBaseSDKError,
\* and has made no token exchange and no dispatch after that call; and the
\* step in which the call timed out left the stored token as it was.
C16_TimeoutIsTransportFailure ==
    [][\A t \in Tasks :
          /\ TimeoutEndsInAbort(tasks'[t])
          /\ (/\ tasks'[t] # tasks[t]
              /\ Len(tasks'[t].calls) > 0
              /\ TimedOut(tasks'[t], LastCall(tasks'[t])))
                => accessToken' = accessToken]_vars

(***************************************************************************)
(* C17: cancellation timers                                                *)
(***************************************************************************)

\* The task is inside the try block of executeFetch or of connect(): its
\* last call is a fetch not yet settled, or a token call whose response is
\* still being handled.
InsideTry(task) ==
    /\ Len(task.calls) > 0
    /\ \/ /\ task.pc \in {"fetch1", "fetch2"}
          /\ LastCall(task).to = "api" /\ LastCall(task).state = "pending"
       \/ /\ task.pc = "tokenFetch"
          /\ LastCall(task).to = "token" /\ LastCall(task).state = "pending"
       \/ /\ task.pc \in {"tokenText", "tokenJson"}
          /\ LastCall(task).to = "token" /\ LastCall(task).state = "response"
          /\ LastCall(task).read = "none"

\* C17: an operation has one timer armed while it is inside a dispatch or
\* a token exchange, the timer of that call, and none at any other moment,
\* whichever way the call was left; so when no operation is in flight no
\* timer is pending.
C17_TimersDisarmed ==
    /\ \A t \in Tasks : tasks[t].timers = IF InsideTry(tasks[t]) THEN 1 ELSE 0
    /\ (\A t \in Tasks : tasks[t].pc \in {"idle", "done"})
          => \A t \in Tasks : tasks[t].timers = 0

\* Nothing is in flight after a request that went through a dispatch, a
\* token exchange and a dispatch that timed out.
C17_Witness ==
    \E t \in Tasks :
        /\ tasks[t].op \in ResourceOps /\ tasks[t].pc = "done"
        /\ Len(tasks[t].calls) = 3
        /\ tasks[t].calls[3].state = "aborted"
        /\ \A u \in Tasks : tasks[u].pc \in {"idle", "done"} /\ tasks[u].timers = 0

(***************************************************************************)
(* C18: concurrent reauthentication                                        *)
(***************************************************************************)

\* The request of task, answered 401, is about to make a token exchange of
\* its own, or has made one right after the 401 and, when that exchange
\* has succeeded, is about to send or has sent the request once more; it
\* has made no other call.
ReauthenticatesItself(task) ==
    LET c == task.calls IN
    \/ task.pc = "retry" /\ Len(c) = 1
    \/ /\ Len(c) \in 2..3
       /\ c[2].to = "token"
       /\ CallsTo(task, "token") = 1
       /\ IF ExchangeSucceeded(c[2])
          THEN \/ task.pc = "reconnected" /\ Len(c) = 2
               \/ Len(c) = 3 /\ c[3].to = "api" /\ SameRequest(c[1], c[3])
          ELSE Len(c) = 2

\* The call in slot t is waiting for a promise or about to resume.
InFlight(t) == tasks[t].pc \notin {"idle", "done"}

\* C18: when two requests in flight together have both been answered 401
\* on their first dispatch, each makes its own token exchange in the
\* continuation that follows its 401 (two exchanges in all) and its own
\* single redispatch once its exchange succeeded, and each can take its
\* next step whatever state the other is in.
C18_NoCoalescing ==
    \A t, u \in Tasks :
        (/\ t # u
         /\ tasks[t].op \in RetryableOps /\ tasks[u].op \in RetryableOps
         /\ Len(tasks[t].calls) >= 1 /\ Answered401(tasks[t].calls[1])
         /\ Len(tasks[u].calls) >= 1 /\ Answered401(tasks[u].calls[1])) =>
            /\ ReauthenticatesItself(tasks[t])
            /\ (tasks[t].pc # "retry" /\ tasks[u].pc # "retry") =>
                  CallsTo(tasks[t], "token") + CallsTo(tasks[u], "token") = 2
            /\ InFlight(t) => ENABLED Settle(t)

\* Two requests in flight together were both answered 401; each has
\* exchanged the token and sent its request again.
C18_Witness ==
    \E t, u \in Tasks :
        /\ t # u
        /\ tasks[t].op \in RetryableOps /\ tasks[u].op \in RetryableOps
        /\ Len(tasks[t].calls) = 3 /\ Len(tasks[u].calls) = 3
        /\ Answered401(tasks[t].calls[1]) /\ Answered401(tasks[u].calls[1])
        /\ ExchangeSucceeded(tasks[t].calls[2]) /\ ExchangeSucceeded(tasks[u].calls[2])
        /\ tasks[t].calls[2].data = "t1" /\ tasks[u].calls[2].data = "t2"

(***************************************************************************)
(* C19: the last successful exchange wins                                  *)
(***************************************************************************)

\* The access_token of the exchange the connect() of slot t returns from in
\* this step.
Exchanged(t) == LastCall(tasks'[t]).data

\* C19: the stored token starts absent; the step in which the response of
\* a successful exchange is processed stores the token of that exchange,
\* whatever was stored; no other step changes the stored token, the step in
\* which an exchange fails least of all.  So the stored token is always
\* absent or the token of the successful exchange processed last.
C19_LastExchangeWins ==
    /\ accessToken = Null
    /\ [][/\ \A t \in Tasks : ConnectSucceeds(t) => accessToken' = Exchanged(t)
          /\ (\A t \in Tasks : ~ConnectSucceeds(t)) => accessToken' = accessToken
          /\ \A t \in Tasks : ConnectFails(t) =>
                /\ accessToken' = accessToken
                /\ \A u \in Tasks \ {t} : tasks'[u] = tasks[u]]_vars

\* A connect() and a reauthenticating request ran together, their
\* exchanges returned t1 and t2, and t2 is stored while a second connect()
\* has failed beside it.
C19_Witness ==
    \E t, u \in Tasks :
        /\ accessToken = "t2"
        /\ tasks[t].op = "connect" /\ tasks[t].pc = "done"
        /\ tasks[t].error = TransportError
        /\ tasks[u].op \in RetryableOps
        /\ Len(tasks[u].calls) = 3
        /\ ExchangeSucceeded(tasks[u].calls[2])
        /\ tasks[u].calls[2].data = "t2"
        /\ BearerOf(tasks[u].calls[1]) = "t1"

(***************************************************************************)
(* C20: connect() does not retry                                           *)
(***************************************************************************)

\* C20: a connect() called by the caller has made one transport call, the
\* token request, from its first step on and never a second; when the
\* token endpoint has answered with a non-success status, a 401 included,
\* connect() reads the text of the answer and ends with the error of that
\* status.
C20_ConnectCallsOnce ==
    \A t \in Tasks :
        tasks[t].op = "connect" =>
            /\ Len(tasks[t].calls) = 1
            /\ tasks[t].calls[1].to = "token"
            /\ (tasks[t].calls[1].state = "response"
                   /\ ~Ok(tasks[t].calls[1].status)) =>
                  \/ tasks[t].pc = "tokenText" /\ tasks[t].error = NoError
                  \/ /\ tasks[t].pc = "done"
                     /\ tasks[t].error.name = "ESignBaseSDKError"
                     /\ tasks[t].error.statusCode = {tasks[t].calls[1].status}

\* A connect() the token endpoint answered with 401 has ended with that
\* error after its one call.
C20_Witness ==
    \E t \in Tasks :
        /\ tasks[t].op = "connect"
        /\ tasks[t].pc = "done"
        /\ Len(tasks[t].calls) = 1
        /\ Answered401(tasks[t].calls[1])
        /\ tasks[t].calls[1].read = "ok"
        /\ tasks[t].error = ESignBaseSDKError(BodyText, {401})

(***************************************************************************)
(* C21: the bearer token is read when the request is sent                  *)
(***************************************************************************)

\* C21: every dispatch, the first and the one after a reauthentication,
\* carries the token stored at the step in which it is sent; the step in
\* which a request's own exchange succeeds stores the token of that
\* exchange, and until the request is sent again the stored token changes
\* only when another exchange succeeds.  So the redispatch carries the
\* token of the successful exchange completed last, and the token of the
\* first dispatch only when that exchange returned it again.
C21_BearerReadAtDispatch ==
    [][\A t \in Tasks :
          /\ Dispatches(t) =>
                /\ BearerOf(Dispatched(t)) = accessToken
                /\ accessToken' = accessToken
          /\ (tasks[t].pc = "tokenJson" /\ tasks'[t].pc = "reconnected") =>
                accessToken' = Exchanged(t)
          /\ (tasks[t].pc = "reconnected" /\ accessToken' # accessToken) =>
                \E u \in Tasks \ {t} :
                    ConnectSucceeds(u) /\ accessToken' = Exchanged(u)]_vars

\* A request sent with t1 and answered 401 exchanged the token for t1
\* again; a connect() beside it stored t2 before the request was sent
\* again, and the redispatch carries t2.
C21_Witness ==
    \E t, u \in Tasks :
        /\ tasks[t].op \in RetryableOps
        /\ Len(tasks[t].calls) = 3
        /\ BearerOf(tasks[t].calls[1]) = "t1"
        /\ ExchangeSucceeded(tasks[t].calls[2])
        /\ tasks[t].calls[2].data = "t1"
        /\ BearerOf(tasks[t].calls[3]) = "t2"
        /\ tasks[u].op = "connect"
        /\ ExchangeSucceeded(tasks[u].calls[1])
        /\ tasks[u].calls[1].data = "t2"

====
